---- MODULE Spec2Model ----
(***************************************************************************)
(* Rent escalation and historical ledger engine (inmobiliaria).            *)
(*                                                                         *)
(* Money is held in cents (integers); a factor is a reduced fraction       *)
(* <<n, d>>; round(x, 2) is the rounding of an exact quotient to the       *)
(* nearest cent.  A date is [y, m, d]; a "YYYY-MM" string is the token     *)
(* sequence <<year, tens digit of month, units digit of month>>, compared  *)
(* the way Python compares strings (lexicographically); "" is <<>>.        *)
(* Text that the code parses (the index policy) is a sequence of           *)
(* one-character strings.                                                  *)
(***************************************************************************)
EXTENDS Integers, Sequences, FiniteSets, TLC

VARIABLES
    maestro,               \* rows of the master sheet 'administracion'
    inflacion_df,          \* composite-inflation series (sorted by fecha)
    icl_falla,             \* period-end months for which the ICL request raises
    hoja,                  \* rows of the sheet 'historico' (the persisted ledger)
    pc,                    \* position of generate_historical_until
    fecha_limite,          \* argument of the current run
    historico_existente,   \* result of read_existing_historical for this run
    todos_los_registros,   \* accumulator of generate_historical_until
    fila_idx,              \* index of the master row the loop is at
    summary,               \* HistoricalSummary of the current run
    nuevos_registros,      \* per property: records generated by this run
    corridas,              \* number of runs started so far
    calc                   \* arguments and result of the direct calls of
                           \* calcular_precio_base_acumulado, of
                           \* calcular_cuotas_adicionales and of
                           \* generate_monthly_record

vars == <<maestro, inflacion_df, icl_falla, hoja, pc, fecha_limite,
          historico_existente, todos_los_registros, fila_idx, summary,
          nuevos_registros, corridas, calc>>

----------------------------------------------------------------------------
(* Bounds of the model *)

MaxCorridas == 2          \* runs per behaviour
MaxPrevios == 2           \* rows of an externally supplied prior ledger
MaxMesesRef == 13         \* months after contract start tried by direct calls

MaxMesRegistro == 4       \* months after contract start of the directly generated records

----------------------------------------------------------------------------
(* Arithmetic helpers *)

RECURSIVE GCD(_, _)
GCD(a, b) == IF b = 0 THEN a ELSE GCD(b, a % b)

Frac(n, d) == LET g == GCD(n, d) IN <<n \div g, d \div g>>

FracMul(f, g) == Frac(f[1] * g[1], f[2] * g[2])

RECURSIVE FracPow(_, _)
FracPow(f, k) == IF k = 0 THEN <<1, 1>> ELSE FracMul(f, FracPow(f, k - 1))

\* nearest integer to a / b (a >= 0, b > 0), ties to even
RoundDiv(a, b) ==
    LET q == a \div b
        r == a % b
    IN  IF 2 * r < b THEN q
        ELSE IF 2 * r > b THEN q + 1
        ELSE IF q % 2 = 0 THEN q ELSE q + 1

\* round(precio * factor, 2) on a price in cents
RoundPrecio(precio, f) == RoundDiv(precio * f[1], f[2])

\* f"{porcentaje:.2f}%" with porcentaje = (factor - 1) * 100, in hundredths
PorcDeFactor(f) ==
    IF f[1] >= f[2] THEN RoundDiv((f[1] - f[2]) * 10000, f[2])
    ELSE 0 - RoundDiv((f[2] - f[1]) * 10000, f[2])

----------------------------------------------------------------------------
(* Dates and month strings *)

Fecha(y, m, d) == [y |-> y, m |-> m, d |-> d]

DateLT(a, b) ==
    \/ a.y < b.y
    \/ a.y = b.y /\ a.m < b.m
    \/ a.y = b.y /\ a.m = b.m /\ a.d < b.d

DateLE(a, b) == a = b \/ DateLT(a, b)

\* date + relativedelta(months=n), n >= 0 (days 1..28 are never clipped)
AddMonths(f, n) ==
    LET t == (f.m - 1) + n
    IN  Fecha(f.y + (t \div 12), (t % 12) + 1, f.d)

\* date - relativedelta(months=n), n >= 0
SubMonths(f, n) ==
    LET t == f.y * 12 + (f.m - 1) - n
    IN  Fecha(t \div 12, (t % 12) + 1, f.d)

calculate_months_since_start(fecha_actual, fecha_inicio) ==
    (fecha_actual.y - fecha_inicio.y) * 12 + (fecha_actual.m - fecha_inicio.m)

\* Variant: December is followed by January of the same year
get_next_month_date_mismo_anio(fecha_actual) ==
    IF fecha_actual.m = 12
    THEN Fecha(fecha_actual.y, 1, 1)
    ELSE Fecha(fecha_actual.y, fecha_actual.m + 1, 1)

\* Variant: the cursor advances two months, except over the turn of the year
get_next_month_date_salta_un_mes(fecha_actual) ==
    IF fecha_actual.m = 12
    THEN Fecha(fecha_actual.y + 1, 1, 1)
    ELSE Fecha(fecha_actual.y, fecha_actual.m + 2, 1)

get_next_month_date(fecha_actual) ==
    IF fecha_actual.m = 12
    THEN Fecha(fecha_actual.y + 1, 1, 1)
    ELSE Fecha(fecha_actual.y, fecha_actual.m + 1, 1)

\* f"{year}-{month:02d}"
mes_actual_str(fecha) == <<fecha.y, fecha.m \div 10, fecha.m % 10>>

\* Python's s > t on strings, on token sequences
RECURSIVE StrGT(_, _)
StrGT(s, t) ==
    IF s = <<>> THEN FALSE
    ELSE IF t = <<>> THEN TRUE
    ELSE IF Head(s) # Head(t) THEN Head(s) > Head(t)
    ELSE StrGT(Tail(s), Tail(t))

StrLE(s, t) == ~StrGT(s, t)

\* PropertyHistoricalData.ultima_fecha: <<>> stands for None
ultima_fecha(ultimo_mes) ==
    IF ultimo_mes = <<>> THEN <<>>
    ELSE <<Fecha(ultimo_mes[1], ultimo_mes[2] * 10 + ultimo_mes[3], 1)>>

----------------------------------------------------------------------------
(* Text helpers *)

Min(a, b) == IF a < b THEN a ELSE b
Max(a, b) == IF a > b THEN a ELSE b

UpperChar(c) ==
    CASE c = "i" -> "I" [] c = "p" -> "P" [] c = "c" -> "C" [] c = "l" -> "L"
      [] c = "a" -> "A" [] c = "b" -> "B" [] OTHER -> c

\* str.upper()
Upper(s) == [i \in 1..Len(s) |-> UpperChar(s[i])]

\* str.lower() on the frequency names the master sheet holds
Lower(s) ==
    CASE s = "Trimestral" -> "trimestral"
      [] s = "Cuatrimestral" -> "cuatrimestral"
      [] s = "Semestral" -> "semestral"
      [] s = "Anual" -> "anual"
      [] OTHER -> s

DigitVal(c) ==
    CASE c = "0" -> 0 [] c = "1" -> 1 [] c = "2" -> 2 [] c = "3" -> 3
      [] c = "4" -> 4 [] c = "5" -> 5 [] c = "6" -> 6 [] c = "7" -> 7
      [] c = "8" -> 8 [] c = "9" -> 9 [] OTHER -> -1

IsDigit(c) == DigitVal(c) >= 0

\* s.replace('%', '').replace(',', '.')
ReplacePct(s) ==
    LET sinPct == SelectSeq(s, LAMBDA c : c # "%")
    IN  [i \in 1..Len(sinPct) |-> IF sinPct[i] = "," THEN "." ELSE sinPct[i]]

RECURSIVE LStrip(_)
LStrip(s) == IF s # <<>> /\ Head(s) = " " THEN LStrip(Tail(s)) ELSE s

RECURSIVE RStrip(_)
RStrip(s) ==
    IF s # <<>> /\ s[Len(s)] = " " THEN RStrip(SubSeq(s, 1, Len(s) - 1)) ELSE s

\* str.strip()
Strip(s) == LStrip(RStrip(s))

RECURSIVE DigitsVal(_)
DigitsVal(s) ==
    IF s = <<>> THEN 0 ELSE DigitsVal(SubSeq(s, 1, Len(s) - 1)) * 10 + DigitVal(s[Len(s)])

\* Variant: a text that is no number counts as 10
ParseFloat_diez_por_defecto(text) == [ok |-> TRUE, tenths |-> 100]

\* float(text) for decimal literals with at most one fractional digit;
\* the value is returned in tenths; ok = FALSE stands for ValueError
ParseFloat(text) ==
    LET s == Strip(text)
        dots == {i \in 1..Len(s) : s[i] = "."}
        p == IF dots = {} THEN Len(s) + 1 ELSE CHOOSE i \in dots : TRUE
        ent == SubSeq(s, 1, p - 1)
        dec == SubSeq(s, p + 1, Len(s))
        wellFormed ==
            /\ Cardinality(dots) <= 1
            /\ \A i \in 1..Len(s) : IsDigit(s[i]) \/ s[i] = "."
            /\ Len(ent) + Len(dec) > 0
            /\ Len(dec) <= 1
    IN  IF wellFormed
        THEN [ok |-> TRUE, tenths |-> DigitsVal(ent) * 10 + DigitsVal(dec)]
        ELSE [ok |-> FALSE, tenths |-> 0]

----------------------------------------------------------------------------
(* Rate sources *)

FREQUENCY_MONTHS_MAP ==
    [trimestral |-> 3, cuatrimestral |-> 4, semestral |-> 6, anual |-> 12]

DEFAULT_FREQUENCY == "trimestral"

get_frequency_months(actualizacion) ==
    IF Lower(actualizacion) \in DOMAIN FREQUENCY_MONTHS_MAP
    THEN FREQUENCY_MONTHS_MAP[Lower(actualizacion)]
    ELSE FREQUENCY_MONTHS_MAP[DEFAULT_FREQUENCY]

RECURSIVE ProdFactores(_)
ProdFactores(rows) ==
    IF rows = <<>> THEN <<1, 1>>
    ELSE FracMul(Frac(100 + Head(rows).valor, 100), ProdFactores(Tail(rows)))

\* inflacion_acumulada(df_infl, hasta, meses)
inflacion_acumulada(df_infl, hasta, meses) ==
    LET limite == Fecha(hasta.y, hasta.m, 1)
        previos == SelectSeq(df_infl, LAMBDA r : DateLE(r.fecha, limite))
        ultimo == SubSeq(previos, Max(1, Len(previos) - meses + 1), Len(previos))
    IN  ProdFactores(ultimo)

\* The published ICL series: one value per month from 2023-11 on (the value
\* of every day of that month), as the BCRA API holds it.
ICL_VALORES == <<100, 100, 105, 110, 110, 120, 121, 121, 132, 132, 132, 150, 150, 165, 165>>

ICLBase == 2023 * 12 + 10

MonthIdx(f) == f.y * 12 + (f.m - 1)

\* data["results"] of the request desde..hasta: the observations of the
\* range, most recent first (one per month of the range)
ICLResults(desde, hasta) ==
    LET lo == Max(MonthIdx(desde), ICLBase)
        hi == Min(MonthIdx(hasta), ICLBase + Len(ICL_VALORES) - 1)
    IN  IF hi < lo THEN <<>>
        ELSE [i \in 1..(hi - lo + 1) |->
                 [mes |-> hi - i + 1, valor |-> ICL_VALORES[hi - i + 1 - ICLBase + 1]]]

\* traer_factor_icl(fecha_inicio, fecha_hasta); ok = FALSE stands for a raise
\* (the factor field then holds no value: <<0, 1>>)
\* Lines 39-60 of traer_factor_icl on the "results" of a response
factor_de_results(results) ==
    IF results = <<>> THEN [ok |-> FALSE, factor |-> <<0, 1>>]
    ELSE LET valor_final == results[1].valor
             valor_inicio == results[Len(results)].valor
         IN  IF valor_inicio <= 0 THEN [ok |-> FALSE, factor |-> <<0, 1>>]
             ELSE [ok |-> TRUE, factor |-> Frac(valor_final, valor_inicio)]

traer_factor_icl(falla, fecha_inicio, fecha_hasta) ==
    IF MonthIdx(fecha_hasta) \in falla THEN [ok |-> FALSE, factor |-> <<0, 1>>]
    ELSE factor_de_results(ICLResults(fecha_inicio, fecha_hasta))

IPC == <<"I", "P", "C">>
ICL == <<"I", "C", "L">>

----------------------------------------------------------------------------
(* Full recompute: calcular_precio_base_acumulado *)

\* The loop of the IPC branch: factor_total over cycles ciclo .. ciclos - 1
RECURSIVE FactorTotalIPC(_, _, _, _, _)
FactorTotalIPC(df_infl, fecha_inicio, freq_meses, ciclo, ciclos) ==
    IF ciclo >= ciclos THEN <<1, 1>>
    ELSE LET fecha_corte == AddMonths(fecha_inicio, (ciclo + 1) * freq_meses)
             factor_ciclo == inflacion_acumulada(df_infl, fecha_corte, freq_meses)
         IN  FracMul(factor_ciclo,
                     FactorTotalIPC(df_infl, fecha_inicio, freq_meses, ciclo + 1, ciclos))

\* One cycle of the ICL branch: the factor, 1.0 when the request raises
FactorCicloICL(falla, fecha_inicio, freq_meses, ciclo) ==
    LET fecha_inicio_ciclo == AddMonths(fecha_inicio, ciclo * freq_meses)
        fecha_fin_ciclo == AddMonths(fecha_inicio_ciclo, freq_meses)
        r == traer_factor_icl(falla, fecha_inicio_ciclo, fecha_fin_ciclo)
    IN  IF r.ok THEN r.factor ELSE <<1, 1>>

RECURSIVE FactorTotalICL(_, _, _, _, _)
FactorTotalICL(falla, fecha_inicio, freq_meses, ciclo, ciclos) ==
    IF ciclo >= ciclos THEN <<1, 1>>
    ELSE FracMul(FactorCicloICL(falla, fecha_inicio, freq_meses, ciclo),
                 FactorTotalICL(falla, fecha_inicio, freq_meses, ciclo + 1, ciclos))

\* factor - 1 as a percentage, a fraction
PorcFrac(f) == IF f[1] >= f[2] THEN Frac((f[1] - f[2]) * 100, f[2]) ELSE <<0, 1>>

\* Variant: one cycle more than the completed ones
CiclosCumplidos_mas_uno(meses_desde_inicio, freq_meses) ==
    (meses_desde_inicio \div freq_meses) + 1

\* Number of completed cycles: meses_desde_inicio // freq_meses
CiclosCumplidos(meses_desde_inicio, freq_meses) == meses_desde_inicio \div freq_meses

calcular_precio_base_acumulado(precio_original, actualizacion, indice, df_infl, falla, fecha_inicio, fecha_ref) ==
    LET freq_meses == get_frequency_months(actualizacion)
        meses_desde_inicio == calculate_months_since_start(fecha_ref, fecha_inicio)
        ciclos_cumplidos == CiclosCumplidos(meses_desde_inicio, freq_meses)
        resto == meses_desde_inicio % freq_meses
        aplica_actualizacion == resto = 0 /\ ciclos_cumplidos > 0
        pct == ParseFloat(ReplacePct(indice))
        factor_total ==
            IF Upper(indice) = IPC
            THEN FactorTotalIPC(df_infl, fecha_inicio, freq_meses, 0, ciclos_cumplidos)
            ELSE IF Upper(indice) = ICL
            THEN FactorTotalICL(falla, fecha_inicio, freq_meses, 0, ciclos_cumplidos)
            ELSE IF pct.ok
            THEN FracPow(Frac(1000 + pct.tenths, 1000), ciclos_cumplidos)
            ELSE <<1, 1>>
        ultimo ==
            IF Upper(indice) = IPC
            THEN PorcFrac(inflacion_acumulada(df_infl,
                     AddMonths(fecha_inicio, ciclos_cumplidos * freq_meses), freq_meses))
            ELSE IF Upper(indice) = ICL
            THEN LET r == traer_factor_icl(falla,
                              AddMonths(fecha_inicio, (ciclos_cumplidos - 1) * freq_meses),
                              AddMonths(fecha_inicio, ciclos_cumplidos * freq_meses))
                 IN  IF r.ok THEN PorcFrac(r.factor) ELSE <<0, 1>>
            ELSE IF pct.ok THEN Frac(pct.tenths, 10)
            ELSE <<0, 1>>
    IN  IF ciclos_cumplidos = 0
        THEN [precio |-> precio_original, porc |-> <<0, 1>>, aplica |-> FALSE]
        ELSE [precio |-> RoundPrecio(precio_original, factor_total),
              porc |-> IF aplica_actualizacion THEN ultimo ELSE <<0, 1>>,
              aplica |-> aplica_actualizacion]

----------------------------------------------------------------------------
(* Commission and installments: calculations.py *)

FracAdd(f, g) == Frac(f[1] * g[2] + g[1] * f[2], f[2] * g[2])

\* round(x, 2) on an amount n/d of cents
RoundFrac(f) == RoundDiv(f[1], f[2])

\* calcular_comision on an amount n/d of cents, for the well-formed
\* percentages the master rows hold: round(precio_mes * pct / 100, 2)
calcular_comision(comision_str, precio_mes) ==
    RoundDiv(precio_mes[1] * ParseFloat(ReplacePct(Strip(comision_str))).tenths,
             precio_mes[2] * 1000)

\* Variant: the three-installment plan runs one month longer
CuotaDePlan_un_mes_mas(base, plan, mes_actual) ==
    IF plan = "2 cuotas" /\ mes_actual <= 2 THEN Frac(base, 2)
    ELSE IF plan = "3 cuotas" /\ mes_actual <= 4 THEN Frac(base, 3)
    ELSE <<0, 1>>

\* One if/elif chain of the installment functions: the amount, in n/d cents,
\* that a plan adds in the 1-based month mes_actual
CuotaDePlan(base, plan, mes_actual) ==
    IF plan = "2 cuotas" /\ mes_actual <= 2 THEN Frac(base, 2)
    ELSE IF plan = "3 cuotas" /\ mes_actual <= 3 THEN Frac(base, 3)
    ELSE <<0, 1>>

calcular_cuotas_adicionales(precio_base, comision_inquilino, deposito, mes_actual) ==
    RoundFrac(FracAdd(CuotaDePlan(precio_base, comision_inquilino, mes_actual),
                      CuotaDePlan(precio_base, deposito, mes_actual)))

\* The base of the commission leg: the fixed amount when one is given
BaseComision(precio_base, monto_comision) ==
    IF monto_comision # <<>> /\ monto_comision[1] # 0 THEN monto_comision[1]
    ELSE precio_base

\* calcular_cuotas_detalladas: the two legs apart and their rounded sum;
\* monto_comision is <<>> for None
calcular_cuotas_detalladas(precio_base, comision, deposito, mes_actual, monto_comision) ==
    [total_cuotas |->
         RoundFrac(FracAdd(
             CuotaDePlan(BaseComision(precio_base, monto_comision), comision, mes_actual),
             CuotaDePlan(precio_base, deposito, mes_actual))),
     cuotas_comision |->
         CuotaDePlan(BaseComision(precio_base, monto_comision), comision, mes_actual),
     cuotas_deposito |-> CuotaDePlan(precio_base, deposito, mes_actual)]

----------------------------------------------------------------------------
(* Incremental continuation: HistoricalCalculations *)

\* Variant: the month of the contract start counts as a multiple
should_apply_update_sin_positivo(context) ==
    LET freq_meses == get_frequency_months(context.contrato.actualizacion)
    IN  context.meses_desde_inicio % freq_meses = 0

should_apply_update(context) ==
    LET freq_meses == get_frequency_months(context.contrato.actualizacion)
    IN  /\ context.meses_desde_inicio > 0
        /\ context.meses_desde_inicio % freq_meses = 0

\* The factor of this month's cycle and the text of its percentage
\* (hundredths of a percent); ok = FALSE stands for a raise inside the try
FactorDelMes(context, freq_meses) ==
    LET indice == context.contrato.indice
    IN  IF Upper(indice) = IPC
        THEN LET f == inflacion_acumulada(context.inflacion_df, context.fecha_actual, freq_meses)
             IN  [ok |-> TRUE, factor |-> f, porc |-> PorcDeFactor(f)]
        ELSE IF Upper(indice) = ICL
        THEN LET r == traer_factor_icl(context.falla,
                                       SubMonths(context.fecha_actual, freq_meses),
                                       context.fecha_actual)
             IN  [ok |-> r.ok, factor |-> r.factor, porc |-> PorcDeFactor(r.factor)]
        ELSE LET p == ParseFloat(Strip(ReplacePct(indice)))
             IN  [ok |-> p.ok, factor |-> Frac(1000 + p.tenths, 1000), porc |-> p.tenths * 10]

\* Variant: the percentage reported is the increase since the original price
calculate_price_update_porc_acumulado(context) ==
    IF ~should_apply_update(context)
    THEN [precio |-> context.precio_base_actual, porc |-> <<>>, aplica |-> FALSE]
    ELSE IF ~FactorDelMes(context, get_frequency_months(context.contrato.actualizacion)).ok
    THEN [precio |-> context.precio_base_actual, porc |-> <<>>, aplica |-> FALSE]
    ELSE [precio |-> RoundPrecio(context.precio_base_actual,
                        FactorDelMes(context,
                            get_frequency_months(context.contrato.actualizacion)).factor),
          porc |-> <<PorcDeFactor(Frac(
                        RoundPrecio(context.precio_base_actual,
                            FactorDelMes(context,
                                get_frequency_months(context.contrato.actualizacion)).factor),
                        context.contrato.precio_original))>>,
          aplica |-> TRUE]

\* Variant: the outcome of the rate lookup is used without looking at its error
calculate_price_update_sin_control(context) ==
    IF ~should_apply_update(context)
    THEN [precio |-> context.precio_base_actual, porc |-> <<>>, aplica |-> FALSE]
    ELSE LET freq_meses == get_frequency_months(context.contrato.actualizacion)
             r == FactorDelMes(context, freq_meses)
         IN  [precio |-> RoundPrecio(context.precio_base_actual, r.factor),
              porc |-> <<r.porc>>, aplica |-> TRUE]

calculate_price_update(context) ==
    IF ~should_apply_update(context)
    THEN [precio |-> context.precio_base_actual, porc |-> <<>>, aplica |-> FALSE]
    ELSE LET freq_meses == get_frequency_months(context.contrato.actualizacion)
             r == FactorDelMes(context, freq_meses)
         IN  IF r.ok
             THEN [precio |-> RoundPrecio(context.precio_base_actual, r.factor),
                   porc |-> <<r.porc>>, aplica |-> TRUE]
             ELSE [precio |-> context.precio_base_actual, porc |-> <<>>, aplica |-> FALSE]

\* Variant: the position in the cycle is counted from 1 instead of from 0
calculate_proximity_months_desde_uno(context) ==
    LET freq_meses == get_frequency_months(context.contrato.actualizacion)
        resto == (context.meses_desde_inicio + 1) % freq_meses
    IN  [meses_prox_actualizacion |->
             IF should_apply_update(context) THEN freq_meses ELSE freq_meses - resto,
         meses_prox_renovacion |->
             Max(0, context.contrato.duracion_meses - context.meses_desde_inicio)]

calculate_proximity_months(context) ==
    LET freq_meses == get_frequency_months(context.contrato.actualizacion)
        resto == context.meses_desde_inicio % freq_meses
    IN  [meses_prox_actualizacion |->
             IF should_apply_update(context) THEN freq_meses ELSE freq_meses - resto,
         meses_prox_renovacion |->
             Max(0, context.contrato.duracion_meses - context.meses_desde_inicio)]

validate_contract_active(context) ==
    context.meses_desde_inicio < context.contrato.duracion_meses

----------------------------------------------------------------------------
(* MonthlyRecordGenerator *)

\* safe_percentage of _extract_additional_services, in tenths of a percent
safe_percentage(value) ==
    IF Strip(value) = <<>> THEN 0 ELSE ParseFloat(Strip(ReplacePct(value))).tenths

\* safe_float(value, default=None): an empty or zero cell gives None
safe_float_o_None(value) == IF value = 0 THEN <<>> ELSE <<value>>

\* _extract_additional_services on a master row; amounts are in cents, and
\* safe_float with default 0.0 leaves them as they are
extract_additional_services(data) ==
    [municipalidad |-> data.municipalidad,
     luz |-> data.luz,
     gas |-> data.gas,
     expensas |-> data.expensas,
     descuento_porcentaje |-> safe_percentage(data.descuento),
     monto_comision |-> safe_float_o_None(data.monto_comision)]

\* The CalculationContext of one month from the services of the row
contexto_del_mes(contrato, fecha_actual, precio_base_actual, df_infl, falla, servicios) ==
    [contrato |-> contrato,
     fecha_actual |-> fecha_actual,
     fecha_inicio_contrato |-> contrato.fecha_inicio_contrato,
     meses_desde_inicio |->
         calculate_months_since_start(fecha_actual, contrato.fecha_inicio_contrato),
     precio_base_actual |-> precio_base_actual,
     municipalidad |-> servicios.municipalidad,
     luz |-> servicios.luz,
     gas |-> servicios.gas,
     expensas |-> servicios.expensas,
     descuento_porcentaje |-> servicios.descuento_porcentaje,
     monto_comision |-> servicios.monto_comision,
     inflacion_df |-> df_infl,
     falla |-> falla]

\* create_context_for_month with the services process_property extracts
\* from the row and hands down
create_context_for_month(contrato, fecha_actual, precio_base_actual, df_infl, falla) ==
    contexto_del_mes(contrato, fecha_actual, precio_base_actual, df_infl, falla,
                     extract_additional_services(contrato))

validate_context(context) ==
    /\ validate_contract_active(context)
    /\ ~(context.precio_base_actual <= 0)
    /\ ~DateLT(context.fecha_actual, context.fecha_inicio_contrato)

\* Step 2 of generate_monthly_record: round(precio * (1 - descuento / 100), 2)
aplicar_descuento(precio_base_actualizado, descuento_porcentaje) ==
    RoundDiv(precio_base_actualizado * (1000 - descuento_porcentaje), 1000)

\* context.contrato.comision or "Pagado"
o_Pagado(plan) == IF plan = "" THEN "Pagado" ELSE plan

\* Variant: the fixed commission amount is not handed to the installments
cuotas_del_mes_sin_monto(context, precio_descuento) ==
    calcular_cuotas_detalladas(precio_descuento,
                               o_Pagado(context.contrato.comision),
                               o_Pagado(context.contrato.deposito),
                               context.meses_desde_inicio + 1,
                               <<>>)

\* Step 4 of generate_monthly_record: the call of calcular_cuotas_detalladas
cuotas_del_mes(context, precio_descuento) ==
    calcular_cuotas_detalladas(precio_descuento,
                               o_Pagado(context.contrato.comision),
                               o_Pagado(context.contrato.deposito),
                               context.meses_desde_inicio + 1,
                               context.monto_comision)

\* Variant: the agency commission is taken on the rent only
comision_inmo_total_solo_alquiler(context, precio_descuento, cuotas_deposito) ==
    calcular_comision(context.contrato.comision_inmo, <<precio_descuento, 1>>)

\* Steps 3 and 4.1: the agency commission on the rent and on the deposit leg
comision_inmo_total(context, precio_descuento, cuotas_deposito) ==
    calcular_comision(context.contrato.comision_inmo, <<precio_descuento, 1>>)
        + (IF cuotas_deposito[1] > 0
           THEN calcular_comision(context.contrato.comision_inmo, cuotas_deposito)
           ELSE 0)

\* Step 5: what the owner is paid
pago_propietario(context, precio_descuento, cuotas_deposito, comision_inmo) ==
    RoundFrac(FracAdd(cuotas_deposito,
                      <<precio_descuento + context.municipalidad + context.luz
                            + context.gas + context.expensas - comision_inmo, 1>>))

\* Steps 2 to 9 of generate_monthly_record from the outcome of step 1; the
\* identification fields and the description of the installments are left out
armar_registro(context, u, prox, precio_descuento, cuotas, comision_inmo) ==
    [nombre_inmueble |-> context.contrato.nombre_inmueble,
     mes_actual |-> mes_actual_str(context.fecha_actual),
     precio_final |-> precio_descuento + cuotas.total_cuotas + context.municipalidad
                          + context.luz + context.gas + context.expensas,
     precio_original |-> u.precio,
     precio_descuento |-> precio_descuento,
     cuotas_adicionales |-> cuotas.total_cuotas,
     cuotas_comision |-> cuotas.cuotas_comision,
     cuotas_deposito |-> cuotas.cuotas_deposito,
     municipalidad |-> context.municipalidad,
     luz |-> context.luz,
     gas |-> context.gas,
     expensas |-> context.expensas,
     comision_inmo |-> comision_inmo,
     pago_prop |->
         pago_propietario(context, precio_descuento, cuotas.cuotas_deposito,
                          comision_inmo),
     actualizacion |-> IF u.aplica THEN "SI" ELSE "NO",
     porc_actual |-> IF u.aplica THEN u.porc ELSE <<>>,
     meses_prox_actualizacion |-> prox.meses_prox_actualizacion,
     meses_prox_renovacion |-> prox.meses_prox_renovacion]

\* Amounts are in cents; the installment legs are fractions n/d of cents
generate_monthly_record(context) ==
    LET u == calculate_price_update(context)
        prox == calculate_proximity_months(context)
        precio_descuento == aplicar_descuento(u.precio, context.descuento_porcentaje)
        cuotas == cuotas_del_mes(context, precio_descuento)
    IN  armar_registro(context, u, prox, precio_descuento, cuotas,
            comision_inmo_total(context, precio_descuento, cuotas.cuotas_deposito))

----------------------------------------------------------------------------
(* HistoricalDataManager *)

\* Variant: the last row of a property decides its latest month and price
RECURSIVE ReadRows_ultima_fila(_, _)
ReadRows_ultima_fila(rows, acc) ==
    IF rows = <<>> THEN acc
    ELSE LET registro == Head(rows)
             nombre == registro.nombre_inmueble
             previos == IF nombre \in DOMAIN acc THEN acc[nombre].registros_existentes
                        ELSE <<>>
             entrada == [ultimo_mes |-> registro.mes_actual,
                         ultimo_precio_base |-> registro.precio_original,
                         registros_existentes |-> Append(previos, registro)]
         IN  ReadRows_ultima_fila(Tail(rows),
                 [k \in (DOMAIN acc) \cup {nombre} |->
                      IF k = nombre THEN entrada ELSE acc[k]])

\* float(registro.get("precio_original", 0)) or float(registro.get("precio_base", 0));
\* a precio_original cell holds a number (cents), a precio_base cell holds
\* text; ok = FALSE stands for the ValueError of float()
precio_de_registro(registro) ==
    IF "precio_original" \in DOMAIN registro /\ registro.precio_original # 0
    THEN [ok |-> TRUE, valor |-> registro.precio_original]
    ELSE IF "precio_base" \in DOMAIN registro
    THEN [ok |-> ParseFloat(registro.precio_base).ok,
          valor |-> ParseFloat(registro.precio_base).tenths * 10]
    ELSE [ok |-> TRUE, valor |-> 0]

\* The loop of read_existing_historical over the rows of the sheet
RECURSIVE ReadRows(_, _)
ReadRows(rows, acc) ==
    IF rows = <<>> THEN acc
    ELSE LET registro == Head(rows)
             nombre == registro.nombre_inmueble
             mes == registro.mes_actual
             precio_base == precio_de_registro(registro).valor
             acc1 == IF nombre \in DOMAIN acc THEN acc
                     ELSE acc @@ (nombre :> [ultimo_mes |-> mes,
                                             ultimo_precio_base |-> precio_base,
                                             registros_existentes |-> <<>>])
             acc2 == IF StrGT(mes, acc1[nombre].ultimo_mes)
                     THEN [acc1 EXCEPT ![nombre].ultimo_mes = mes,
                                       ![nombre].ultimo_precio_base = precio_base]
                     ELSE acc1
             acc3 == [acc2 EXCEPT ![nombre].registros_existentes = Append(@, registro)]
         IN  ReadRows(Tail(rows), acc3)

\* read_existing_historical: an exception anywhere in the loop is caught and
\* the result is {}
read_existing_historical(rows) ==
    IF \E i \in 1..Len(rows) : ~precio_de_registro(rows[i]).ok THEN <<>>
    ELSE ReadRows(rows, <<>>)

NombreRank(n) == CASE n = "A" -> 1 [] n = "B" -> 2 [] OTHER -> 3

\* key(x) <= key(y) for key = (nombre_inmueble, mes_actual)
KeyLE(x, y) ==
    \/ NombreRank(x.nombre_inmueble) < NombreRank(y.nombre_inmueble)
    \/ /\ x.nombre_inmueble = y.nombre_inmueble
       /\ StrLE(x.mes_actual, y.mes_actual)

\* insertion of r after every element whose key is <= its key (stable)
RECURSIVE InsertSorted(_, _)
InsertSorted(sorted, r) ==
    IF sorted = <<>> THEN <<r>>
    ELSE IF KeyLE(Head(sorted), r) THEN <<Head(sorted)>> \o InsertSorted(Tail(sorted), r)
    ELSE <<r>> \o sorted

\* list.sort(key=...) : a stable sort
RECURSIVE SortRecords(_, _)
SortRecords(records, acc) ==
    IF records = <<>> THEN acc
    ELSE SortRecords(Tail(records), InsertSorted(acc, Head(records)))

\* Variant: the rows are written in the order given
write_historical_records_sin_orden(records) == records

\* The rows of the sheet after write_historical_records(records), records # []
write_historical_records(records) == SortRecords(records, <<>>)

----------------------------------------------------------------------------
(* HistoricalService *)

REQUIRED_FIELDS ==
    {"nombre_inmueble", "dir_inmueble", "inquilino", "propietario",
     "precio_original", "fecha_inicio_contrato", "duracion_meses",
     "actualizacion", "indice", "comision_inmo"}

\* Variant: only the property name is required
create_entities_ok_solo_nombre(data) == "nombre_inmueble" \notin data.vacios

\* _create_entities_from_data raises when a required field is absent or blank
create_entities_ok(data) == \A field \in REQUIRED_FIELDS : field \notin data.vacios

\* Variant: a resumed property restarts from the original price
determine_starting_point_precio_original(contrato, existente) ==
    IF contrato.nombre_inmueble \in DOMAIN existente
    THEN LET info_historico == existente[contrato.nombre_inmueble]
             uf == ultima_fecha(info_historico.ultimo_mes)
         IN  [registros_existentes |-> info_historico.registros_existentes,
              precio_base_inicial |-> contrato.precio_original,
              fecha_inicial |->
                  IF uf # <<>> THEN get_next_month_date(uf[1])
                  ELSE contrato.fecha_inicio_contrato]
    ELSE [registros_existentes |-> <<>>,
          precio_base_inicial |-> contrato.precio_original,
          fecha_inicial |-> contrato.fecha_inicio_contrato]

\* Variant: a resumed property restarts at its last recorded month
determine_starting_point_mismo_mes(contrato, existente) ==
    IF contrato.nombre_inmueble \in DOMAIN existente
    THEN LET info_historico == existente[contrato.nombre_inmueble]
             uf == ultima_fecha(info_historico.ultimo_mes)
         IN  [registros_existentes |-> info_historico.registros_existentes,
              precio_base_inicial |-> info_historico.ultimo_precio_base,
              fecha_inicial |->
                  IF uf # <<>> THEN uf[1]
                  ELSE contrato.fecha_inicio_contrato]
    ELSE [registros_existentes |-> <<>>,
          precio_base_inicial |-> contrato.precio_original,
          fecha_inicial |-> contrato.fecha_inicio_contrato]

determine_starting_point(contrato, existente) ==
    IF contrato.nombre_inmueble \in DOMAIN existente
    THEN LET info_historico == existente[contrato.nombre_inmueble]
             uf == ultima_fecha(info_historico.ultimo_mes)
         IN  [registros_existentes |-> info_historico.registros_existentes,
              precio_base_inicial |-> info_historico.ultimo_precio_base,
              fecha_inicial |->
                  IF uf # <<>> THEN get_next_month_date(uf[1])
                  ELSE contrato.fecha_inicio_contrato]
    ELSE [registros_existentes |-> <<>>,
          precio_base_inicial |-> contrato.precio_original,
          fecha_inicial |-> contrato.fecha_inicio_contrato]

RECURSIVE generate_missing_months(_, _, _, _, _, _, _)

\* The end of the loop body: append the record, carry its price, advance
siguiente_mes(contrato, fecha_actual, limite, df_infl, falla, registros, registro) ==
    generate_missing_months(contrato, get_next_month_date(fecha_actual), limite,
                            registro.precio_original, df_infl, falla,
                            Append(registros, registro))

\* The while loop of _generate_missing_months
generate_missing_months(contrato, fecha_actual, limite, precio_base_actual, df_infl, falla, registros) ==
    IF ~DateLE(fecha_actual, limite) THEN registros
    ELSE LET context == create_context_for_month(contrato, fecha_actual,
                                                 precio_base_actual, df_infl, falla)
         IN  IF ~validate_context(context) THEN registros
             ELSE siguiente_mes(contrato, fecha_actual, limite, df_infl, falla, registros,
                                generate_monthly_record(context))

\* Step 5 of process_property: the call of _generate_missing_months
generar_desde(contrato, punto, limite, df_infl, falla) ==
    generate_missing_months(contrato, punto.fecha_inicial, limite,
                            punto.precio_base_inicial, df_infl, falla, <<>>)

\* Variant: only the new records are returned
combinar_registros_solo_nuevos(registros_existentes, nuevos) == nuevos

\* Step 6 of process_property: registros_existentes + nuevos_registros
combinar_registros(registros_existentes, nuevos) == registros_existentes \o nuevos

\* What process_property returns from its starting point and the new records
resultado_de(punto, nuevos) ==
    [ok |-> TRUE, error |-> "",
     todos |-> combinar_registros(punto.registros_existentes, nuevos),
     nuevos_registros |-> nuevos]

\* process_property: ok = FALSE stands for the exception it raises
process_property(property_data, limite, df_infl, falla, existente) ==
    IF ~create_entities_ok(property_data)
    THEN [ok |-> FALSE, error |-> "Campo obligatorio faltante",
          todos |-> <<>>, nuevos_registros |-> <<>>]
    ELSE IF DateLT(limite, property_data.fecha_inicio_contrato)
    THEN [ok |-> FALSE, error |-> "Contrato inicia despues de fecha limite",
          todos |-> <<>>, nuevos_registros |-> <<>>]
    ELSE resultado_de(determine_starting_point(property_data, existente),
                      generar_desde(property_data,
                                    determine_starting_point(property_data, existente),
                                    limite, df_infl, falla))

HistoricalSummary ==
    [total_registros |-> 0, propiedades_procesadas |-> 0,
     propiedades_omitidas |-> 0, errores |-> <<>>]

----------------------------------------------------------------------------
(* Inputs of the model *)

FechasInicio == {Fecha(2023, 11, 15), Fecha(2023, 12, 1)}

FechasLimite == {Fecha(2023, 11, 1), Fecha(2024, 2, 1), Fecha(2024, 6, 30)}

Duraciones == {2, 7}

Precios == {100004}

Frecuencias == {"trimestral", "Cuatrimestral", "mensual"}

Indices == {<<"1", "0", "%">>, <<"7", ",", "5", " ", "%">>, <<"i", "p", "c">>,
            <<"I", "C", "L">>, <<"a", "b", "c">>}

\* Monthly inflation (percent), 2023-08 .. 2024-07, sorted by fecha
SERIE_IPC ==
    <<[fecha |-> Fecha(2023, 8, 1), valor |-> 0], [fecha |-> Fecha(2023, 9, 1), valor |-> 0],
      [fecha |-> Fecha(2023, 10, 1), valor |-> 0], [fecha |-> Fecha(2023, 11, 1), valor |-> 10],
      [fecha |-> Fecha(2023, 12, 1), valor |-> 0], [fecha |-> Fecha(2024, 1, 1), valor |-> 10],
      [fecha |-> Fecha(2024, 2, 1), valor |-> 0], [fecha |-> Fecha(2024, 3, 1), valor |-> 25],
      [fecha |-> Fecha(2024, 4, 1), valor |-> 0], [fecha |-> Fecha(2024, 5, 1), valor |-> 0],
      [fecha |-> Fecha(2024, 6, 1), valor |-> 10], [fecha |-> Fecha(2024, 7, 1), valor |-> 0]>>

\* A series with a single published month
SERIE_CORTA == <<[fecha |-> Fecha(2024, 1, 1), valor |-> 10]>>

\* Months whose ICL request may fail
MesesFalla ==
    {MonthIdx(Fecha(2024, 2, 1)), MonthIdx(Fecha(2024, 3, 1)), MonthIdx(Fecha(2024, 5, 1))}

\* The optional cells of a master row: plans, discount, charges in cents
Opcionales(comision, deposito, descuento, municipalidad, monto_comision) ==
    [comision_inmo |-> <<"5", "%">>, comision |-> comision, deposito |-> deposito,
     descuento |-> descuento, municipalidad |-> municipalidad, luz |-> 700, gas |-> 0,
     expensas |-> 2300, monto_comision |-> monto_comision]

OpcionalesFijos == Opcionales("2 cuotas", "3 cuotas", <<"1", "0", "%">>, 1500, 0)

FilaA(inicio, dur, precio, act, indice, vacios) ==
    [nombre_inmueble |-> "A", fecha_inicio_contrato |-> inicio, duracion_meses |-> dur,
     precio_original |-> precio, actualizacion |-> act, indice |-> indice,
     vacios |-> vacios] @@ OpcionalesFijos

FilaB(vacios) ==
    [nombre_inmueble |-> "B", fecha_inicio_contrato |-> Fecha(2023, 12, 1),
     duracion_meses |-> 7, precio_original |-> 100000, actualizacion |-> "trimestral",
     indice |-> <<"1", "0", "%">>, vacios |-> vacios] @@ OpcionalesFijos

FilasA ==
    {FilaA(i, d, p, a, x, v) :
        i \in FechasInicio, d \in Duraciones, p \in Precios, a \in Frecuencias,
        x \in Indices, v \in {{}, {"indice"}}}

Maestros ==
    {<<a>> : a \in FilasA} \cup {<<a, FilaB({})>> : a \in FilasA}
        \cup {<<FilaB({"dir_inmueble"}), a>> : a \in FilasA}

FilaDe(m, nombre) ==
    LET idx == {i \in 1..Len(m) : m[i].nombre_inmueble = nombre}
    IN  m[CHOOSE i \in idx : TRUE]

Nombres(m) == {m[i].nombre_inmueble : i \in 1..Len(m)}

----------------------------------------------------------------------------
(* Initial states *)

InitCorrida ==
    /\ pc = "idle"
    /\ fecha_limite = Fecha(2023, 11, 1)
    /\ historico_existente = <<>>
    /\ todos_los_registros = <<>>
    /\ fila_idx = 1
    /\ summary = HistoricalSummary
    /\ nuevos_registros = <<>>
    /\ corridas = 0
    /\ calc = <<>>

\* The ledger sheet does not exist yet
Init ==
    /\ maestro \in Maestros
    /\ inflacion_df \in IF Upper(FilaDe(maestro, "A").indice) = IPC
                        THEN {SERIE_IPC, SERIE_CORTA} ELSE {SERIE_IPC}
    /\ icl_falla \in IF Upper(FilaDe(maestro, "A").indice) = ICL
                     THEN {{}} \cup {{m} : m \in MesesFalla} ELSE {{}}
    /\ hoja = <<>>
    /\ InitCorrida

----------------------------------------------------------------------------
(* generate_historical_until, one step per statement group *)

\* Lines 76-93: load the inputs, read the existing ledger, reset the summary
IniciarCorrida ==
    /\ pc \in {"idle", "abortada", "sin_maestro"}
    /\ corridas < MaxCorridas
    /\ \E lim \in FechasLimite : fecha_limite' = lim
    /\ corridas' = corridas + 1
    /\ summary' = HistoricalSummary
    /\ historico_existente' = read_existing_historical(hoja)
    /\ todos_los_registros' = <<>>
    /\ nuevos_registros' = <<>>
    /\ fila_idx' = 1
    /\ pc' = "filas"
    /\ UNCHANGED <<maestro, inflacion_df, icl_falla, hoja, calc>>

\* Lines 76-83 when traer_inflacion raises (request error, HTTP status or
\* malformed body): the exception leaves generate_historical_until before any
\* property is processed and no summary is returned
AbortarCorrida ==
    /\ pc \in {"idle", "abortada", "sin_maestro"}
    /\ corridas < MaxCorridas
    /\ \E lim \in FechasLimite : fecha_limite' = lim
    /\ corridas' = corridas + 1
    /\ summary' = HistoricalSummary
    /\ historico_existente' = <<>>
    /\ todos_los_registros' = <<>>
    /\ nuevos_registros' = <<>>
    /\ fila_idx' = 1
    /\ pc' = "abortada"
    /\ UNCHANGED <<maestro, inflacion_df, icl_falla, hoja, calc>>

\* Variant: the run that could not load the master list clears the ledger
FallaCargaMaestro_borra_hoja ==
    /\ pc \in {"idle", "abortada", "sin_maestro"}
    /\ corridas < MaxCorridas
    /\ \E lim \in FechasLimite : fecha_limite' = lim
    /\ corridas' = corridas + 1
    /\ summary' = HistoricalSummary
    /\ historico_existente' = <<>>
    /\ todos_los_registros' = <<>>
    /\ nuevos_registros' = <<>>
    /\ fila_idx' = 1
    /\ pc' = "sin_maestro"
    /\ hoja' = <<>>
    /\ UNCHANGED <<maestro, inflacion_df, icl_falla, calc>>

\* Lines 76-80 when load_maestro_data raises: it logs and re-raises, and the
\* exception leaves generate_historical_until; nothing is read or written
FallaCargaMaestro ==
    /\ pc \in {"idle", "abortada", "sin_maestro"}
    /\ corridas < MaxCorridas
    /\ \E lim \in FechasLimite : fecha_limite' = lim
    /\ corridas' = corridas + 1
    /\ summary' = HistoricalSummary
    /\ historico_existente' = <<>>
    /\ todos_los_registros' = <<>>
    /\ nuevos_registros' = <<>>
    /\ fila_idx' = 1
    /\ pc' = "sin_maestro"
    /\ UNCHANGED <<maestro, inflacion_df, icl_falla, hoja, calc>>

ResultadoFila ==
    process_property(maestro[fila_idx], fecha_limite, inflacion_df, icl_falla,
                     historico_existente)

\* Lines 95-100: the try body for one master row
ProcesarFila ==
    /\ pc = "filas"
    /\ fila_idx <= Len(maestro)
    /\ ResultadoFila.ok
    /\ \E r \in {ResultadoFila} :
           /\ todos_los_registros' = todos_los_registros \o r.todos
           /\ summary' = [summary EXCEPT
                             !.propiedades_procesadas = @ + 1,
                             !.total_registros = @ + Len(r.todos)]
           /\ nuevos_registros' =
                  (maestro[fila_idx].nombre_inmueble :> r.nuevos_registros) @@ nuevos_registros
    /\ fila_idx' = fila_idx + 1
    /\ UNCHANGED <<maestro, inflacion_df, icl_falla, hoja, pc, fecha_limite,
                   historico_existente, corridas, calc>>

\* Variant: the except branch counts the row without listing its error
OmitirFila_sin_error ==
    /\ pc = "filas"
    /\ fila_idx <= Len(maestro)
    /\ ~ResultadoFila.ok
    /\ summary' = [summary EXCEPT !.propiedades_omitidas = @ + 1]
    /\ fila_idx' = fila_idx + 1
    /\ UNCHANGED <<maestro, inflacion_df, icl_falla, hoja, pc, fecha_limite,
                   historico_existente, todos_los_registros, nuevos_registros,
                   corridas, calc>>

\* Lines 102-126: the except branch for one master row
OmitirFila ==
    /\ pc = "filas"
    /\ fila_idx <= Len(maestro)
    /\ ~ResultadoFila.ok
    /\ summary' = [summary EXCEPT
                      !.errores = Append(@, <<maestro[fila_idx].nombre_inmueble,
                                              ResultadoFila.error>>),
                      !.propiedades_omitidas = @ + 1]
    /\ fila_idx' = fila_idx + 1
    /\ UNCHANGED <<maestro, inflacion_df, icl_falla, hoja, pc, fecha_limite,
                   historico_existente, todos_los_registros, nuevos_registros,
                   corridas, calc>>

\* Lines 128-133: write the results and return the summary
EscribirResultados ==
    /\ pc = "filas"
    /\ fila_idx > Len(maestro)
    /\ hoja' = IF todos_los_registros # <<>>
               THEN write_historical_records(todos_los_registros)
               ELSE hoja
    /\ pc' = "idle"
    /\ UNCHANGED <<maestro, inflacion_df, icl_falla, fecha_limite, historico_existente,
                   todos_los_registros, fila_idx, summary, nuevos_registros,
                   corridas, calc>>

Next == IniciarCorrida \/ FallaCargaMaestro \/ AbortarCorrida \/ ProcesarFila \/ OmitirFila \/ EscribirResultados

Spec == Init /\ [][Next]_vars

----------------------------------------------------------------------------
(* Runs over a ledger sheet that already holds rows written elsewhere
   (rows in any order, prices corrected by hand) *)

FilaPrevia(nombre, mes, precio) ==
    [nombre_inmueble |-> nombre, mes_actual |-> mes, precio_original |-> precio,
     actualizacion |-> "NO", porc_actual |-> <<>>,
     meses_prox_actualizacion |-> 1, meses_prox_renovacion |-> 1]

MesesPrevios == {<<2023, 1, 2>>, <<2024, 0, 1>>}

FilasPrevias ==
    {FilaPrevia("A", m, p) : m \in MesesPrevios, p \in {100004, 125000}}
        \cup {FilaPrevia("B", m, 100000) : m \in MesesPrevios}

RECURSIVE SeqsUpTo(_, _)
SeqsUpTo(S, n) ==
    IF n = 0 THEN {<<>>}
    ELSE LET prev == SeqsUpTo(S, n - 1)
         IN  prev \cup {Append(q, x) : q \in {t \in prev : Len(t) = n - 1}, x \in S}

FilasAPrevio ==
    {FilaA(i, 7, 100004, "trimestral", <<"1", "0", "%">>, {}) : i \in FechasInicio}

MaestrosPrevio ==
    {<<a>> : a \in FilasAPrevio} \cup {<<a, FilaB({})>> : a \in FilasAPrevio}
        \cup {<<FilaB({"dir_inmueble"}), a>> : a \in FilasAPrevio}

InitPrevio ==
    /\ maestro \in MaestrosPrevio
    /\ inflacion_df = SERIE_IPC
    /\ icl_falla = {}
    /\ hoja \in SeqsUpTo(FilasPrevias, MaxPrevios)
    /\ InitCorrida

SpecPrevio == InitPrevio /\ [][Next]_vars

----------------------------------------------------------------------------
(* Runs over master rows and ledger rows whose price is not positive *)

PreciosPrecio == {0 - 100, 0, 100004}

FilasAPrecio ==
    {FilaA(i, 7, p, "trimestral", <<"1", "0", "%">>, v) :
        i \in FechasInicio, p \in PreciosPrecio, v \in {{}, {"indice"}}}

MaestrosPrecio ==
    {<<a>> : a \in FilasAPrecio} \cup {<<a, FilaB({})>> : a \in FilasAPrecio}

FilasPreviasPrecio == {FilaPrevia("A", <<2024, 0, 1>>, p) : p \in {0, 125000}}

InitPrecio ==
    /\ maestro \in MaestrosPrecio
    /\ inflacion_df = SERIE_IPC
    /\ icl_falla = {}
    /\ hoja \in SeqsUpTo(FilasPreviasPrecio, 1)
    /\ InitCorrida

SpecPrecio == InitPrecio /\ [][Next]_vars

----------------------------------------------------------------------------
(* Runs over a ledger sheet that holds corrupt rows *)

\* A row without precio_original whose precio_base cell is no number
FilaSinPrecio(nombre, mes) ==
    [nombre_inmueble |-> nombre, mes_actual |-> mes,
     precio_base |-> <<"i", "n", "v", "a", "l", "i", "d">>]

FilasCorruptas ==
    {FilaSinPrecio("A", <<2024, 0, 1>>), FilaPrevia("", <<2024, 0, 2>>, 100000),
     FilaPrevia("A", <<>>, 110000), FilaPrevia("A", <<2024, 0, 3>>, 120000)}

InitCorrupto ==
    /\ maestro \in {<<a>> : a \in FilasAPrevio}
    /\ inflacion_df = SERIE_IPC
    /\ icl_falla = {}
    /\ hoja \in SeqsUpTo(FilasCorruptas, MaxPrevios)
    /\ InitCorrida

SpecCorrupto == InitCorrupto /\ [][Next]_vars

----------------------------------------------------------------------------
(* Direct calls of calcular_precio_base_acumulado *)

PreciosCalc == {99, 100000, 100004}

FrecuenciasCalc == {"trimestral", "cuatrimestral", "Semestral", "anual", "mensual"}

IndicesCalc == {<<"1", "0", "%">>, <<"5", "0", " ", "%">>, <<"1", "2", ",", "5", "%">>}

ArgsCalc ==
    {[precio_original |-> precio, actualizacion |-> act, indice |-> indice,
      fecha_inicio |-> inicio,
      fecha_ref |-> AddMonths(Fecha(inicio.y, inicio.m, 1), meses),
      hecho |-> FALSE,
      res |-> [precio |-> 0, porc |-> <<0, 1>>, aplica |-> FALSE]] :
        precio \in PreciosCalc, act \in FrecuenciasCalc, indice \in IndicesCalc,
        inicio \in FechasInicio, meses \in 0..MaxMesesRef}

\* The arguments of one call are drawn; nothing is computed yet
InitCalc ==
    /\ maestro = <<FilaB({})>>
    /\ inflacion_df = SERIE_IPC
    /\ icl_falla = {}
    /\ hoja = <<>>
    /\ pc = "idle"
    /\ fecha_limite = Fecha(2023, 11, 1)
    /\ historico_existente = <<>>
    /\ todos_los_registros = <<>>
    /\ fila_idx = 1
    /\ summary = HistoricalSummary
    /\ nuevos_registros = <<>>
    /\ corridas = 0
    /\ calc \in ArgsCalc

\* The call itself
Calcular ==
    /\ ~calc.hecho
    /\ calc' = [calc EXCEPT
                   !.hecho = TRUE,
                   !.res = calcular_precio_base_acumulado(calc.precio_original,
                               calc.actualizacion, calc.indice, inflacion_df,
                               icl_falla, calc.fecha_inicio, calc.fecha_ref)]
    /\ UNCHANGED <<maestro, inflacion_df, icl_falla, hoja, pc, fecha_limite,
                   historico_existente, todos_los_registros, fila_idx, summary,
                   nuevos_registros, corridas>>

NextCalc == Calcular

SpecCalc == InitCalc /\ [][NextCalc]_vars

----------------------------------------------------------------------------
(* Direct calls of calcular_cuotas_adicionales and generate_monthly_record *)

PreciosRegistro == {100004, 300000}

PlanesComision == {"", "Pagado", "2 cuotas", "3 cuotas"}

PlanesDeposito == {"Pagado", "2 cuotas", "3 cuotas"}

Descuentos == {<<>>, <<"1", "0", "%">>}

MontosComision == {0, 250000}

InicioRegistro == Fecha(2023, 12, 1)

FilasRegistro ==
    {Opcionales(c, d, desc, muni, monto)
         @@ FilaA(InicioRegistro, 7, p, "trimestral", <<"1", "0", "%">>, {}) :
        c \in PlanesComision, d \in PlanesDeposito, desc \in Descuentos,
        muni \in {0, 1500}, monto \in MontosComision, p \in PreciosRegistro}

ArgsRegistro ==
    {[fila |-> f, fecha_actual |-> AddMonths(InicioRegistro, m),
      hecho_cuotas |-> FALSE, cuotas |-> 0,
      hecho_registro |-> FALSE, registro |-> <<>>] :
        f \in FilasRegistro, m \in 0..MaxMesRegistro}

\* A master row and a month are drawn; nothing is computed yet
InitRegistro ==
    /\ maestro = <<FilaB({})>>
    /\ inflacion_df = SERIE_IPC
    /\ icl_falla = {}
    /\ hoja = <<>>
    /\ pc = "idle"
    /\ fecha_limite = Fecha(2023, 11, 1)
    /\ historico_existente = <<>>
    /\ todos_los_registros = <<>>
    /\ fila_idx = 1
    /\ summary = HistoricalSummary
    /\ nuevos_registros = <<>>
    /\ corridas = 0
    /\ calc \in ArgsRegistro

\* calcular_cuotas_adicionales on the original price of the row
CalcularCuotas ==
    /\ ~calc.hecho_cuotas
    /\ calc' = [calc EXCEPT
                   !.hecho_cuotas = TRUE,
                   !.cuotas = calcular_cuotas_adicionales(calc.fila.precio_original,
                                  calc.fila.comision, calc.fila.deposito,
                                  calculate_months_since_start(calc.fecha_actual,
                                      calc.fila.fecha_inicio_contrato) + 1)]
    /\ UNCHANGED <<maestro, inflacion_df, icl_falla, hoja, pc, fecha_limite,
                   historico_existente, todos_los_registros, fila_idx, summary,
                   nuevos_registros, corridas>>

\* generate_monthly_record on the context of the month, as the loop of
\* _generate_missing_months calls it
GenerarRegistro ==
    /\ ~calc.hecho_registro
    /\ validate_context(create_context_for_month(calc.fila, calc.fecha_actual,
                            calc.fila.precio_original, inflacion_df, icl_falla))
    /\ calc' = [calc EXCEPT
                   !.hecho_registro = TRUE,
                   !.registro = generate_monthly_record(
                                    create_context_for_month(calc.fila, calc.fecha_actual,
                                        calc.fila.precio_original, inflacion_df,
                                        icl_falla))]
    /\ UNCHANGED <<maestro, inflacion_df, icl_falla, hoja, pc, fecha_limite,
                   historico_existente, todos_los_registros, fila_idx, summary,
                   nuevos_registros, corridas>>

NextRegistro == CalcularCuotas \/ GenerarRegistro

SpecRegistro == InitRegistro /\ [][NextRegistro]_vars

----------------------------------------------------------------------------
(* Direct calls of traer_factor_icl on responses in either date order *)

\* data["results"] as the service publishes it: most recent first, or
\* oldest first
RespuestaICL(desde, hasta, ascendente) ==
    IF ascendente
    THEN [i \in 1..Len(ICLResults(desde, hasta)) |->
             ICLResults(desde, hasta)[Len(ICLResults(desde, hasta)) - i + 1]]
    ELSE ICLResults(desde, hasta)

MesesICL == ICLBase..(ICLBase + Len(ICL_VALORES) - 1)

ArgsICL ==
    {[fecha_inicio |-> Fecha(d \div 12, (d % 12) + 1, 1),
      fecha_hasta |-> Fecha(h \div 12, (h % 12) + 1, 1),
      ascendente |-> asc, hecho |-> FALSE,
      res |-> [ok |-> FALSE, factor |-> <<0, 1>>]] :
        d \in MesesICL, h \in MesesICL, asc \in BOOLEAN}

\* The range of one request and the order of its response are drawn
InitICL ==
    /\ maestro = <<FilaB({})>>
    /\ inflacion_df = SERIE_IPC
    /\ icl_falla = {}
    /\ hoja = <<>>
    /\ pc = "idle"
    /\ fecha_limite = Fecha(2023, 11, 1)
    /\ historico_existente = <<>>
    /\ todos_los_registros = <<>>
    /\ fila_idx = 1
    /\ summary = HistoricalSummary
    /\ nuevos_registros = <<>>
    /\ corridas = 0
    /\ calc \in ArgsICL

\* traer_factor_icl on the response to the request
ConsultarICL ==
    /\ ~calc.hecho
    /\ calc' = [calc EXCEPT
                   !.hecho = TRUE,
                   !.res = factor_de_results(RespuestaICL(calc.fecha_inicio,
                               calc.fecha_hasta, calc.ascendente))]
    /\ UNCHANGED <<maestro, inflacion_df, icl_falla, hoja, pc, fecha_limite,
                   historico_existente, todos_los_registros, fila_idx, summary,
                   nuevos_registros, corridas>>

SpecICL == InitICL /\ [][ConsultarICL]_vars

----------------------------------------------------------------------------
(* Vocabulary of the properties *)

\* Calendar month number of a "YYYY-MM" string
MesIdx(mes) == mes[1] * 12 + (mes[2] * 10 + mes[3]) - 1

\* First day of the calendar month with number idx
FechaDeIdx(idx) == Fecha(idx \div 12, (idx % 12) + 1, 1)

FilasDe(rows, nombre) == SelectSeq(rows, LAMBDA r : r.nombre_inmueble = nombre)

CuentaDe(rows, r) == Cardinality({i \in 1..Len(rows) : rows[i] = r})

PreciosDe(regs) == [i \in 1..Len(regs) |-> <<regs[i].mes_actual, regs[i].precio_original>>]

FaltaCampo(fila) == fila.vacios \cap REQUIRED_FIELDS # {}

CorridaTerminada == pc = "idle" /\ corridas > 0

LedgerEscrito == CorridaTerminada /\ todos_los_registros # <<>>

\* The records this run generated for the property of a master row
GeneradosDe(fila) ==
    IF fila.nombre_inmueble \in DOMAIN nuevos_registros
    THEN nuevos_registros[fila.nombre_inmueble] ELSE <<>>

\* The price the generation of this run started from
PrecioInicialDe(fila) ==
    IF fila.nombre_inmueble \in DOMAIN historico_existente
    THEN historico_existente[fila.nombre_inmueble].ultimo_precio_base
    ELSE fila.precio_original

MesesDesdeInicio(fila, mes) == MesIdx(mes) - MonthIdx(fila.fecha_inicio_contrato)

EsMultiploPositivo(fila, mes) ==
    /\ MesesDesdeInicio(fila, mes) > 0
    /\ MesesDesdeInicio(fila, mes) % get_frequency_months(fila.actualizacion) = 0

\* One pass from contract start to the limit date, on the original price
PasadaUnica(fila, limite) ==
    generate_missing_months(fila, fila.fecha_inicio_contrato, limite,
                            fila.precio_original, inflacion_df, icl_falla, <<>>)

----------------------------------------------------------------------------
(* C1 *)

\* C1: for a property resumed from the state a previous run saved, the months
\* generated after the saved month carry the same base prices as one pass
\* from contract start to the same limit date, under the same external rates.
C1_ContinuacionEquivalente ==
    \A n \in DOMAIN nuevos_registros :
        n \in DOMAIN historico_existente =>
            PreciosDe(nuevos_registros[n]) =
                PreciosDe(SelectSeq(PasadaUnica(FilaDe(maestro, n), fecha_limite),
                              LAMBDA r : StrGT(r.mes_actual,
                                               historico_existente[n].ultimo_mes)))

C1_Witness ==
    /\ CorridaTerminada
    /\ corridas = 2
    /\ "A" \in DOMAIN nuevos_registros
    /\ "A" \in DOMAIN historico_existente
    /\ \E i \in 1..Len(nuevos_registros["A"]) :
           /\ nuevos_registros["A"][i].actualizacion = "SI"
           /\ nuevos_registros["A"][i].precio_original > 110100

----------------------------------------------------------------------------
(* C2 *)

\* The months of the rows are strictly increasing, row after row
MesesCrecientes(rows) ==
    \A i \in 1..(Len(rows) - 1) : MesIdx(rows[i].mes_actual) < MesIdx(rows[i + 1].mes_actual)

\* The prior ledger this run read lists no month of the property twice
SinMesRepetido(nombre) ==
    nombre \in DOMAIN historico_existente =>
        LET rs == historico_existente[nombre].registros_existentes
        IN  \A i, j \in 1..Len(rs) : i # j => rs[i].mes_actual # rs[j].mes_actual

\* C2 as stated: after any run, whatever the prior ledger contained, the
\* written ledger holds for each property a strictly increasing sequence of
\* months (no pair repeated, none out of order).
C2_MesesCrecientesSiempre ==
    LedgerEscrito => \A n \in Nombres(maestro) : MesesCrecientes(FilasDe(hoja, n))

\* C2 amended: after a run over a prior ledger that lists no (property, month)
\* pair more than once, in whatever row order, the written ledger holds for
\* that property a strictly increasing sequence of months.
C2_MesesCrecientes ==
    LedgerEscrito =>
        \A n \in Nombres(maestro) :
            SinMesRepetido(n) => MesesCrecientes(FilasDe(hoja, n))

C2_Witness ==
    /\ LedgerEscrito
    /\ "A" \in DOMAIN historico_existente
    /\ "A" \in DOMAIN nuevos_registros
    /\ nuevos_registros["A"] # <<>>
    /\ LET rs == historico_existente["A"].registros_existentes
       IN  /\ Len(rs) = 2
           /\ MesIdx(rs[1].mes_actual) > MesIdx(rs[2].mes_actual)
    /\ Len(FilasDe(hoja, "A")) >= 3

----------------------------------------------------------------------------
(* C3 *)

GeneradosDesde(fila, fecha, precio) ==
    generate_missing_months(fila, fecha, fecha_limite, precio, inflacion_df, icl_falla, <<>>)

\* C3: with prior rows of the property in the ledger, generation resumes at
\* the month after the greatest prior month, whatever the row order, from the
\* price recorded in a row of that month; without prior rows it starts at the
\* contract start with the original price.
C3_PuntoDeReanudacion ==
    pc = "filas" =>
        \A n \in DOMAIN nuevos_registros :
            LET fila == FilaDe(maestro, n)
                previas == FilasDe(hoja, n)
            IN  IF previas = <<>>
                THEN nuevos_registros[n] =
                         GeneradosDesde(fila, fila.fecha_inicio_contrato, fila.precio_original)
                ELSE \E i \in 1..Len(previas) :
                         /\ \A j \in 1..Len(previas) :
                                MesIdx(previas[j].mes_actual) <= MesIdx(previas[i].mes_actual)
                         /\ nuevos_registros[n] =
                                GeneradosDesde(fila,
                                               FechaDeIdx(MesIdx(previas[i].mes_actual) + 1),
                                               previas[i].precio_original)

C3_Witness ==
    /\ pc = "filas"
    /\ "A" \in DOMAIN nuevos_registros
    /\ LET previas == FilasDe(hoja, "A")
       IN  /\ Len(previas) = 2
           /\ previas[1].mes_actual = <<2024, 0, 1>>
           /\ previas[1].precio_original = 125000
           /\ previas[2].mes_actual = <<2023, 1, 2>>
    /\ nuevos_registros["A"] # <<>>
    /\ nuevos_registros["A"][1].mes_actual = <<2024, 0, 2>>
    /\ nuevos_registros["A"][1].precio_original = 125000

----------------------------------------------------------------------------
(* C4 *)

ErroresDe(nombre) ==
    {k \in 1..Len(summary.errores) : summary.errores[k][1] = nombre}

\* The accumulated records of a run over the given master rows
RECURSIVE RegistrosDeCorrida(_)
RegistrosDeCorrida(filas) ==
    IF filas = <<>> THEN <<>>
    ELSE LET r == process_property(Head(filas), fecha_limite, inflacion_df, icl_falla,
                                   historico_existente)
         IN  (IF r.ok THEN r.todos ELSE <<>>) \o RegistrosDeCorrida(Tail(filas))

\* C4: a master row missing a required field yields no record for its
\* property and exactly one entry of the error summary, and the records of
\* the run are those of the run over the master without the faulty rows.
C4_FilaDefectuosaAislada ==
    CorridaTerminada =>
        /\ \A i \in 1..Len(maestro) :
               FaltaCampo(maestro[i]) =>
                   /\ FilasDe(todos_los_registros, maestro[i].nombre_inmueble) = <<>>
                   /\ Cardinality(ErroresDe(maestro[i].nombre_inmueble)) = 1
        /\ todos_los_registros =
               RegistrosDeCorrida(SelectSeq(maestro, LAMBDA f : ~FaltaCampo(f)))

C4_Witness ==
    /\ CorridaTerminada
    /\ Len(maestro) = 2
    /\ FaltaCampo(maestro[1])
    /\ ~FaltaCampo(maestro[2])
    /\ Len(summary.errores) = 1
    /\ FilasDe(hoja, maestro[2].nombre_inmueble) # <<>>
    /\ FilasDe(hoja, maestro[1].nombre_inmueble) = <<>>

----------------------------------------------------------------------------
(* C5 *)

\* The base price of the full recompute for the month of a record
PrecioRecalculado(fila, mes) ==
    calcular_precio_base_acumulado(fila.precio_original, fila.actualizacion, fila.indice,
                                   inflacion_df, icl_falla, fila.fecha_inicio_contrato,
                                   FechaDeIdx(MesIdx(mes))).precio

\* C5 as stated: for every month generated from contract start by carrying
\* the running price, the full recompute on the original price yields the
\* same base price, under the same external rates.
C5_ModosCoinciden ==
    \A n \in DOMAIN nuevos_registros :
        n \notin DOMAIN historico_existente =>
            \A i \in 1..Len(nuevos_registros[n]) :
                nuevos_registros[n][i].precio_original =
                    PrecioRecalculado(FilaDe(maestro, n), nuevos_registros[n][i].mes_actual)

----------------------------------------------------------------------------
(* C6 *)

\* The published ICL value of the calendar month idx
ICLVal(idx) == ICL_VALORES[idx - ICLBase + 1]

EsICL(fila) == Upper(fila.indice) = ICL

\* The row is one the run processes without error
FilaSana(fila) == ~FaltaCampo(fila) /\ ~DateLT(fecha_limite, fila.fecha_inicio_contrato)

\* The factor the full recompute is to use after c cycles: the quotient of
\* the ICL values of each cycle's ends, 1 for a cycle whose request fails
RECURSIVE FactorEsperadoICL(_, _)
FactorEsperadoICL(fila, c) ==
    IF c = 0 THEN <<1, 1>>
    ELSE LET freq == get_frequency_months(fila.actualizacion)
             fin == MonthIdx(fila.fecha_inicio_contrato) + c * freq
             f == IF fin \in icl_falla THEN <<1, 1>>
                  ELSE Frac(ICLVal(fin), ICLVal(fin - freq))
         IN  FracMul(f, FactorEsperadoICL(fila, c - 1))

\* C6: with the ICL request failing for one cycle of a contract, the month of
\* that cycle keeps the previous price (factor 1), every other escalation
\* month multiplies the previous price by the quotient of the ICL values of
\* its cycle, the full recompute compounds the same factors, the row is
\* processed without error, and the records of the other properties are those
\* of a run without the failure.
C6_FallaICLNeutra ==
    /\ \A n \in DOMAIN nuevos_registros :
           LET fila == FilaDe(maestro, n)
               regs == nuevos_registros[n]
               freq == get_frequency_months(fila.actualizacion)
           IN  IF EsICL(fila)
               THEN \A i \in 1..Len(regs) :
                        LET previo == IF i = 1 THEN PrecioInicialDe(fila)
                                      ELSE regs[i - 1].precio_original
                            m == MesIdx(regs[i].mes_actual)
                        IN  /\ regs[i].precio_original =
                                   IF ~EsMultiploPositivo(fila, regs[i].mes_actual) THEN previo
                                   ELSE IF m \in icl_falla THEN previo
                                   ELSE RoundDiv(previo * ICLVal(m), ICLVal(m - freq))
                            /\ PrecioRecalculado(fila, regs[i].mes_actual) =
                                   RoundPrecio(fila.precio_original,
                                       FactorEsperadoICL(fila,
                                           MesesDesdeInicio(fila, regs[i].mes_actual) \div freq))
               ELSE regs = process_property(fila, fecha_limite, inflacion_df, {},
                                            historico_existente).nuevos_registros
    /\ CorridaTerminada =>
           \A i \in 1..Len(maestro) :
               FilaSana(maestro[i]) =>
                   /\ maestro[i].nombre_inmueble \in DOMAIN nuevos_registros
                   /\ ErroresDe(maestro[i].nombre_inmueble) = {}

\* One cycle of A fails and keeps the price, a later one escalates it, and
\* B is processed in the same run
C6_Witness ==
    /\ CorridaTerminada
    /\ Len(maestro) = 2
    /\ EsICL(FilaDe(maestro, "A"))
    /\ {"A", "B"} \subseteq DOMAIN nuevos_registros
    /\ nuevos_registros["B"] # <<>>
    /\ LET regs == nuevos_registros["A"]
           fila == FilaDe(maestro, "A")
       IN  \E i, j \in 2..Len(regs) :
               /\ i < j
               /\ MesIdx(regs[i].mes_actual) \in icl_falla
               /\ EsMultiploPositivo(fila, regs[i].mes_actual)
               /\ regs[i].precio_original = regs[i - 1].precio_original
               /\ regs[i].actualizacion = "NO"
               /\ EsMultiploPositivo(fila, regs[j].mes_actual)
               /\ regs[j].precio_original > regs[j - 1].precio_original

----------------------------------------------------------------------------
(* C7 *)

\* The master row at position i has been handled by the current run
FilaTratada(i) == corridas > 0 /\ (pc = "idle" \/ i < fila_idx)

MesDeReanudacion(fila) ==
    IF fila.nombre_inmueble \in DOMAIN historico_existente
    THEN MesIdx(historico_existente[fila.nombre_inmueble].ultimo_mes) + 1
    ELSE MonthIdx(fila.fecha_inicio_contrato)

MesesGenerados(fila) ==
    {MesIdx(GeneradosDe(fila)[k].mes_actual) : k \in 1..Len(GeneradosDe(fila))}

\* C7 as stated: the run generates a new record for exactly the months m with
\* resume month <= m <= limit month and months-since-start(m) < duration.
C7_VentanaDeMeses ==
    \A i \in 1..Len(maestro) :
        (FilaTratada(i) /\ ~FaltaCampo(maestro[i])) =>
            LET fila == maestro[i]
            IN  /\ MesesGenerados(fila) =
                       {m \in MesDeReanudacion(fila)..MonthIdx(fecha_limite) :
                            m - MonthIdx(fila.fecha_inicio_contrato) < fila.duracion_meses}
                /\ Cardinality(MesesGenerados(fila)) = Len(GeneradosDe(fila))

----------------------------------------------------------------------------
(* C8 *)

\* C8: for every property processed without error, each row the prior ledger
\* held for it is in the run's output, field for field and as many times, next
\* to the records the run generated; the written sheet holds the output.
C8_PreviosConservados ==
    /\ pc = "filas" =>
           \A n \in DOMAIN nuevos_registros :
               /\ \A k \in 1..Len(hoja) :
                      hoja[k].nombre_inmueble = n =>
                          CuentaDe(todos_los_registros, hoja[k]) >= CuentaDe(hoja, hoja[k])
               /\ \A k \in 1..Len(nuevos_registros[n]) :
                      CuentaDe(todos_los_registros, nuevos_registros[n][k]) >= 1
    /\ LedgerEscrito =>
           /\ Len(hoja) = Len(todos_los_registros)
           /\ \A k \in 1..Len(todos_los_registros) :
                  CuentaDe(hoja, todos_los_registros[k]) =
                      CuentaDe(todos_los_registros, todos_los_registros[k])

C8_Witness ==
    /\ LedgerEscrito
    /\ "A" \in DOMAIN nuevos_registros
    /\ nuevos_registros["A"] # <<>>
    /\ "A" \in DOMAIN historico_existente
    /\ \E k \in 1..Len(hoja) :
           /\ hoja[k] = FilaPrevia("A", <<2023, 1, 2>>, 125000)
           /\ hoja[k] = historico_existente["A"].registros_existentes[1]

----------------------------------------------------------------------------
(* C9 *)

\* The index policy is IPC, ICL or a decimal percentage
EsPorcentaje(indice) ==
    /\ \A k \in 1..Len(indice) : IsDigit(indice[k]) \/ indice[k] \in {",", ".", " ", "%"}
    /\ \E k \in 1..Len(indice) : IsDigit(indice[k])

\* The factor of the cycle ending in the month is obtained without error
FactorResuelto(fila, mes) ==
    IF Upper(fila.indice) = IPC THEN TRUE
    ELSE IF EsICL(fila) THEN MesIdx(mes) \notin icl_falla
    ELSE EsPorcentaje(fila.indice)

----------------------------------------------------------------------------
(* C10 *)

\* 1 + fixed_pct / 100 of the percentages tried, as numerator and denominator
UnoMasPct(indice) ==
    CASE indice = <<"1", "0", "%">> -> <<11, 10>>
      [] indice = <<"5", "0", " ", "%">> -> <<3, 2>>
      [] indice = <<"1", "2", ",", "5", "%">> -> <<9, 8>>

FrecuenciaValida(actualizacion) ==
    actualizacion \in {"trimestral", "cuatrimestral", "Semestral", "anual"}

MesesDeFrecuencia(actualizacion) ==
    CASE actualizacion = "trimestral" -> 3
      [] actualizacion = "cuatrimestral" -> 4
      [] actualizacion = "Semestral" -> 6
      [] actualizacion = "anual" -> 12

RECURSIVE Potencia(_, _)
Potencia(b, e) == IF e = 0 THEN 1 ELSE b * Potencia(b, e - 1)

MesesCalc == MonthIdx(calc.fecha_ref) - MonthIdx(calc.fecha_inicio)

\* C10: for a fixed-percentage contract with a valid frequency, the base
\* price computed for a month equals
\* round(original_price * (1 + fixed_pct/100) ** (months // frequency), 2).
C10_CompuestoFijo ==
    (calc # <<>> /\ calc.hecho /\ FrecuenciaValida(calc.actualizacion)) =>
        LET c == MesesCalc \div MesesDeFrecuencia(calc.actualizacion)
            f == UnoMasPct(calc.indice)
        IN  calc.res.precio =
                RoundDiv(calc.precio_original * Potencia(f[1], c), Potencia(f[2], c))

C10_Witness ==
    /\ calc # <<>>
    /\ calc.hecho
    /\ calc.precio_original = 100004
    /\ calc.actualizacion = "trimestral"
    /\ calc.indice = <<"1", "0", "%">>
    /\ MesesCalc = 7
    /\ calc.res.precio = 121005

----------------------------------------------------------------------------
(* C11 *)

\* 1 + pct / 100 of the fixed percentages of the master rows
FactorFijo(indice) ==
    CASE indice = <<"1", "0", "%">> -> <<11, 10>>
      [] indice = <<"7", ",", "5", " ", "%">> -> <<43, 40>>
      [] OTHER -> <<1, 1>>

\* The factor of the cycle that ends in the month, from the rate sources
FactorUltimoCiclo(fila, mes) ==
    IF Upper(fila.indice) = IPC
    THEN inflacion_acumulada(inflacion_df, FechaDeIdx(MesIdx(mes)),
                             get_frequency_months(fila.actualizacion))
    ELSE IF EsICL(fila)
    THEN Frac(ICLVal(MesIdx(mes)),
              ICLVal(MesIdx(mes) - get_frequency_months(fila.actualizacion)))
    ELSE FactorFijo(fila.indice)

\* (factor - 1) * 100 in hundredths of a percent, to two decimals
PorcCentesimas(f) == RoundDiv((f[1] - f[2]) * 10000, f[2])

PorcRecalculado(fila, mes) ==
    calcular_precio_base_acumulado(fila.precio_original, fila.actualizacion, fila.indice,
                                   inflacion_df, icl_falla, fila.fecha_inicio_contrato,
                                   FechaDeIdx(MesIdx(mes))).porc

\* C11: the percentage of a record is blank when the month does not escalate
\* and otherwise is (factor of the cycle just ended - 1) * 100; the full
\* recompute reports the same percentage for the month, 0 when the month does
\* not escalate or its factor is neutral; neither reports the increase
\* accumulated since contract start.
C11_PorcentajeUltimoCiclo ==
    \A n \in DOMAIN nuevos_registros :
        \A i \in 1..Len(nuevos_registros[n]) :
            LET r == nuevos_registros[n][i]
                fila == FilaDe(maestro, n)
                escala == EsMultiploPositivo(fila, r.mes_actual)
                             /\ FactorResuelto(fila, r.mes_actual)
                f == FactorUltimoCiclo(fila, r.mes_actual)
            IN  /\ r.porc_actual = IF escala THEN <<PorcCentesimas(f)>> ELSE <<>>
                /\ PorcRecalculado(fila, r.mes_actual) =
                       IF escala THEN Frac((f[1] - f[2]) * 100, f[2]) ELSE <<0, 1>>

\* A second cycle has ended and its percentage differs from the accumulated one
C11_Witness ==
    /\ "A" \in DOMAIN nuevos_registros
    /\ Upper(FilaDe(maestro, "A").indice) = IPC
    /\ inflacion_df = SERIE_IPC
    /\ \E i \in 1..Len(nuevos_registros["A"]) :
           /\ MesesDesdeInicio(FilaDe(maestro, "A"), nuevos_registros["A"][i].mes_actual) = 6
           /\ nuevos_registros["A"][i].porc_actual = <<1000>>
           /\ nuevos_registros["A"][i].precio_original > 150000

----------------------------------------------------------------------------
(* C12 *)

\* The month is the last one in which the contract of the row is still active
UltimoMesActivo(fila, mes) == MesesDesdeInicio(fila, mes) = fila.duracion_meses - 1

\* C12: the record of the final active month of a contract (the last month
\* for which a record is generated) has meses_prox_renovacion = 0.
C12_RenovacionCeroAlFinal ==
    \A n \in DOMAIN nuevos_registros :
        \A i \in 1..Len(nuevos_registros[n]) :
            UltimoMesActivo(FilaDe(maestro, n), nuevos_registros[n][i].mes_actual)
                => nuevos_registros[n][i].meses_prox_renovacion = 0

----------------------------------------------------------------------------
(* C13 *)

\* Months per cycle of the frequency labels of the master rows; a label that
\* names no frequency counts as quarterly
CicloEnMeses(actualizacion) ==
    CASE actualizacion = "trimestral" -> 3
      [] actualizacion = "Cuatrimestral" -> 4
      [] OTHER -> 3

\* C13: in every record meses_prox_actualizacion is the frequency in months
\* when the month is an escalation month, and frequency minus
\* (months since start modulo frequency) otherwise.
C13_ProximaActualizacion ==
    \A n \in DOMAIN nuevos_registros :
        \A i \in 1..Len(nuevos_registros[n]) :
            LET r == nuevos_registros[n][i]
                fila == FilaDe(maestro, n)
                freq == CicloEnMeses(fila.actualizacion)
                msi == MesesDesdeInicio(fila, r.mes_actual)
            IN  r.meses_prox_actualizacion =
                    IF msi > 0 /\ msi % freq = 0 THEN freq ELSE freq - (msi % freq)

\* One contract has a record in an escalation month and one two months later
C13_Witness ==
    /\ "A" \in DOMAIN nuevos_registros
    /\ CicloEnMeses(FilaDe(maestro, "A").actualizacion) = 4
    /\ \E i, j \in 1..Len(nuevos_registros["A"]) :
           /\ MesesDesdeInicio(FilaDe(maestro, "A"), nuevos_registros["A"][i].mes_actual) = 4
           /\ nuevos_registros["A"][i].meses_prox_actualizacion = 4
           /\ MesesDesdeInicio(FilaDe(maestro, "A"), nuevos_registros["A"][j].mes_actual) = 6
           /\ nuevos_registros["A"][j].meses_prox_actualizacion = 2

----------------------------------------------------------------------------
(* C14 *)

\* 1-based month of contract of the direct call
MesDeContrato == MonthIdx(calc.fecha_actual) - MonthIdx(InicioRegistro) + 1

\* Number of installments of a plan that is still running in the month, 0 for
\* a plan that adds nothing
CuotasVigentes(plan, mes) ==
    IF plan = "2 cuotas" /\ mes <= 2 THEN 2
    ELSE IF plan = "3 cuotas" /\ mes <= 3 THEN 3
    ELSE 0

\* Sixths of the base that a plan adds in the month
SextosDe(plan, mes) ==
    CASE CuotasVigentes(plan, mes) = 2 -> 3
      [] CuotasVigentes(plan, mes) = 3 -> 2
      [] OTHER -> 0

----------------------------------------------------------------------------
(* C15 *)

----------------------------------------------------------------------------
(* C16 *)

\* The agency percentage of the rows, 5%, of an amount n/d of cents
CincoPorCiento(f) == RoundDiv(f[1] * 5, f[2] * 100)

----------------------------------------------------------------------------
(* C17 *)

\* The contract of the row starts strictly after the limit date of the run
IniciaDespues(fila) == DateLT(fecha_limite, fila.fecha_inicio_contrato)

\* C17: a property whose contract starts strictly after the limit date gets
\* no record in the run and no entry in the error summary of the run.
C17_InicioPosteriorSilencioso ==
    \A i \in 1..Len(maestro) :
        (FilaTratada(i) /\ ~FaltaCampo(maestro[i]) /\ IniciaDespues(maestro[i])) =>
            /\ GeneradosDe(maestro[i]) = <<>>
            /\ ErroresDe(maestro[i].nombre_inmueble) = {}

----------------------------------------------------------------------------
(* C18 *)

\* The row passes the checks of process_property that come before generation
FilaAdmitida(fila) == ~FaltaCampo(fila) /\ ~IniciaDespues(fila)

\* Master rows treated so far in the run whose starting price is positive
FilasConPrecio ==
    {i \in 1..Len(maestro) :
        FilaTratada(i) /\ FilaAdmitida(maestro[i]) /\ PrecioInicialDe(maestro[i]) > 0}

\* C18: a property whose starting price (the original price, or the price of
\* the ledger row it resumes from) is not greater than 0 gets no record in the
\* run, has an entry with the reason in the error summary, and is counted
\* among the omitted properties, not among the processed ones.
C18_PrecioNoPositivoOmitido ==
    /\ \A i \in 1..Len(maestro) :
           (FilaTratada(i) /\ FilaAdmitida(maestro[i])
               /\ PrecioInicialDe(maestro[i]) <= 0) =>
               /\ GeneradosDe(maestro[i]) = <<>>
               /\ ErroresDe(maestro[i].nombre_inmueble) # {}
    /\ corridas > 0 => summary.propiedades_procesadas <= Cardinality(FilasConPrecio)

----------------------------------------------------------------------------
(* C19 *)

\* The index of the row is neither of the two series nor a number
IndiceIlegible(fila) ==
    /\ Upper(fila.indice) # IPC
    /\ ~EsICL(fila)
    /\ ~EsPorcentaje(fila.indice)

\* C19: with a fixed-percentage index that is no number, every generated
\* record keeps the price the generation started from, the full recompute
\* returns the original price for every such month, and the row is processed
\* without an entry in the error summary.
C19_PorcentajeIlegibleNeutro ==
    \A i \in 1..Len(maestro) :
        (FilaTratada(i) /\ ~FaltaCampo(maestro[i]) /\ ~IniciaDespues(maestro[i])
            /\ IndiceIlegible(maestro[i])) =>
            /\ ErroresDe(maestro[i].nombre_inmueble) = {}
            /\ maestro[i].nombre_inmueble \in DOMAIN nuevos_registros
            /\ \A k \in 1..Len(GeneradosDe(maestro[i])) :
                   /\ GeneradosDe(maestro[i])[k].precio_original = PrecioInicialDe(maestro[i])
                   /\ PrecioRecalculado(maestro[i], GeneradosDe(maestro[i])[k].mes_actual)
                          = maestro[i].precio_original

\* A contract with index "abc" has reached its second escalation month
C19_Witness ==
    /\ "A" \in DOMAIN nuevos_registros
    /\ IndiceIlegible(FilaDe(maestro, "A"))
    /\ \E k \in 1..Len(nuevos_registros["A"]) :
           /\ MesesDesdeInicio(FilaDe(maestro, "A"), nuevos_registros["A"][k].mes_actual) = 6
           /\ nuevos_registros["A"][k].precio_original = 100004
           /\ nuevos_registros["A"][k].actualizacion = "NO"

----------------------------------------------------------------------------
(* C20 *)

\* C20: a failure while the inflation series is fetched does not abort the
\* run: every run that loaded the master list is processing the master rows
\* or has written its results and returned its summary.
C20_FallaInflacionNoAborta == pc # "abortada"

----------------------------------------------------------------------------
(* C21 *)

\* C21: a run whose master list cannot be loaded ends with the exception (it
\* returns no summary and processes no row) and leaves the ledger sheet as it
\* was.
C21_FallaMaestroPropaga ==
    [][pc' = "sin_maestro" =>
           /\ hoja' = hoja
           /\ summary'.propiedades_procesadas = 0
           /\ summary'.propiedades_omitidas = 0
           /\ todos_los_registros' = <<>>]_vars

\* The master list could not be loaded in a run over a ledger that holds rows
C21_Witness == pc = "sin_maestro" /\ hoja # <<>> /\ corridas = 2

----------------------------------------------------------------------------
(* C22 *)

\* C22: for a request whose range holds observations, the factor is the value
\* of the newest observation over the value of the oldest one, whether the
\* response lists the observations newest first or oldest first.
C22_FactorICLCualquierOrden ==
    (calc.hecho /\ MonthIdx(calc.fecha_inicio) <= MonthIdx(calc.fecha_hasta)) =>
        /\ calc.res.ok
        /\ calc.res.factor[1] * ICL_VALORES[MonthIdx(calc.fecha_inicio) - ICLBase + 1]
               = calc.res.factor[2] * ICL_VALORES[MonthIdx(calc.fecha_hasta) - ICLBase + 1]

----------------------------------------------------------------------------
(* C23 *)

\* The rows of the property in the sheet that are not corrupt: a name, a
\* month and a numeric price
FilasValidasDe(nombre) ==
    SelectSeq(hoja, LAMBDA r : /\ r.nombre_inmueble = nombre
                               /\ r.mes_actual # <<>>
                               /\ "precio_original" \in DOMAIN r)

\* C23: whatever corrupt rows the ledger holds (a price that is no number, a
\* blank property name, a blank month), the read gives for every property
\* with valid rows the latest month of its valid rows and a price recorded in
\* a valid row of that month.
C23_FilasCorruptasToleradas ==
    pc = "filas" =>
        \A f \in 1..Len(maestro) :
            LET nombre == maestro[f].nombre_inmueble
                validas == FilasValidasDe(nombre)
            IN  validas # <<>> =>
                    /\ nombre \in DOMAIN historico_existente
                    /\ \E i \in 1..Len(validas) :
                           /\ \A j \in 1..Len(validas) :
                                  StrLE(validas[j].mes_actual, validas[i].mes_actual)
                           /\ historico_existente[nombre].ultimo_mes = validas[i].mes_actual
                           /\ historico_existente[nombre].ultimo_precio_base
                                  = validas[i].precio_original

----------------------------------------------------------------------------
(* C24 *)

\* The sheet holds a record of the property for the month
Persistido(h, nombre, mes) ==
    \E j \in 1..Len(h) : h[j].nombre_inmueble = nombre /\ h[j].mes_actual = mes

\* C24: no step of any run removes a persisted record: every (property,
\* month) present in the ledger before the step is present after it, also
\* for properties that fail in the run or are absent from the master list.
C24_NingunRegistroEliminado ==
    [][\A i \in 1..Len(hoja) :
           Persistido(hoja', hoja[i].nombre_inmueble, hoja[i].mes_actual)]_vars

----------------------------------------------------------------------------
(* C25 *)

\* What processing the master row again gives, with the same limit date and
\* the same rates, over the ledger the run has left
FilaRepetida(f) ==
    process_property(maestro[f], fecha_limite, inflacion_df, icl_falla,
                     read_existing_historical(hoja))

\* The accumulator of the repeated run after the first n master rows
RECURSIVE TodosRepetidos(_)
TodosRepetidos(n) ==
    IF n = 0 THEN <<>>
    ELSE TodosRepetidos(n - 1) \o (IF FilaRepetida(n).ok THEN FilaRepetida(n).todos ELSE <<>>)

HojaRepetida ==
    IF TodosRepetidos(Len(maestro)) # <<>>
    THEN write_historical_records(TodosRepetidos(Len(maestro)))
    ELSE hoja

\* C25: once a run has returned, running again with the same master list,
\* the same limit date and the same rates generates no new record for any
\* property and writes the ledger that is already there.
C25_RepeticionIdempotente ==
    CorridaTerminada =>
        /\ \A f \in 1..Len(maestro) :
               FilaRepetida(f).ok => FilaRepetida(f).nuevos_registros = <<>>
        /\ HojaRepetida = hoja

\* A second run has returned after processing a property whose ledger was
\* already complete up to the limit: it generated nothing
C25_Witness ==
    /\ CorridaTerminada
    /\ corridas = 2
    /\ hoja # <<>>
    /\ summary.propiedades_procesadas > 0
    /\ \A n \in DOMAIN nuevos_registros : nuevos_registros[n] = <<>>

----------------------------------------------------------------------------
(* C26 *)

\* C26: when a run has returned, every master row was counted exactly once,
\* as processed or as omitted, and the error list has one entry per omitted
\* row.
C26_ResumenCuadra ==
    CorridaTerminada =>
        /\ summary.propiedades_procesadas + summary.propiedades_omitidas = Len(maestro)
        /\ Len(summary.errores) = summary.propiedades_omitidas

\* A returned run with a processed row and an omitted row
C26_Witness ==
    /\ CorridaTerminada
    /\ summary.propiedades_procesadas > 0
    /\ summary.propiedades_omitidas > 0

----------------------------------------------------------------------------
(* C27 *)

\* The base price the i-th generated record of the property started from
PrecioPrevio(fila, i) ==
    IF i = 1 THEN PrecioInicialDe(fila) ELSE GeneradosDe(fila)[i - 1].precio_original

\* C27: among the records a run generates for a property, the base price of
\* a month that is no escalation month is the base price of the month before
\* it (the resume price for the first generated month): the base price
\* changes only in escalation months.
C27_PrecioSoloCambiaEnActualizacion ==
    \A f \in 1..Len(maestro) :
        \A i \in 1..Len(GeneradosDe(maestro[f])) :
            GeneradosDe(maestro[f])[i].precio_original # PrecioPrevio(maestro[f], i)
                => EsMultiploPositivo(maestro[f], GeneradosDe(maestro[f])[i].mes_actual)

\* A resumed property with a generated month that keeps the resume price and
\* a later escalation month that changes the price
C27_Witness ==
    \E f \in 1..Len(maestro) :
        /\ maestro[f].nombre_inmueble \in DOMAIN historico_existente
        /\ Len(GeneradosDe(maestro[f])) >= 3
        /\ GeneradosDe(maestro[f])[1].precio_original = PrecioInicialDe(maestro[f])
        /\ \E i \in 2..Len(GeneradosDe(maestro[f])) :
               GeneradosDe(maestro[f])[i].precio_original # PrecioPrevio(maestro[f], i)

----------------------------------------------------------------------------
(* C28 *)

\* C28: the records a run generates for a property cover consecutive calendar
\* months without a gap: the first is the resume month and each further one
\* is the month after the record before it.
C28_MesesConsecutivos ==
    \A f \in 1..Len(maestro) :
        \A i \in 1..Len(GeneradosDe(maestro[f])) :
            MesIdx(GeneradosDe(maestro[f])[i].mes_actual) =
                IF i = 1 THEN MesDeReanudacion(maestro[f])
                ELSE MesIdx(GeneradosDe(maestro[f])[i - 1].mes_actual) + 1

\* A resumed property with several generated records, and a new property
\* with records generated across the turn of the year
C28_Witness ==
    \E f, g \in 1..Len(maestro) :
        /\ maestro[f].nombre_inmueble \in DOMAIN historico_existente
        /\ Len(GeneradosDe(maestro[f])) >= 3
        /\ maestro[g].nombre_inmueble \notin DOMAIN historico_existente
        /\ Len(GeneradosDe(maestro[g])) >= 2
        /\ GeneradosDe(maestro[g])[1].mes_actual = <<2023, 1, 2>>
        /\ GeneradosDe(maestro[g])[2].mes_actual = <<2024, 0, 1>>

----------------------------------------------------------------------------
(* C29 *)

\* The records of the run for the property of a master row
LedgerDe(fila) == FilasDe(todos_los_registros, fila.nombre_inmueble)

\* Record j of the property is the month the record i announces as the next
\* escalation
EsProximaDe(fila, i, j) ==
    MesIdx(LedgerDe(fila)[j].mes_actual) =
        MesIdx(LedgerDe(fila)[i].mes_actual) + LedgerDe(fila)[i].meses_prox_actualizacion

NingunaEntre(fila, i, j) ==
    \A l \in 1..Len(LedgerDe(fila)) :
        (/\ MesIdx(LedgerDe(fila)[l].mes_actual) > MesIdx(LedgerDe(fila)[i].mes_actual)
         /\ MesIdx(LedgerDe(fila)[l].mes_actual) < MesIdx(LedgerDe(fila)[j].mes_actual))
            => LedgerDe(fila)[l].actualizacion = "NO"

----------------------------------------------------------------------------
(* C30 *)

\* The values the month cursor of the loop took for the property: the resume
\* date, then the date after each generated record
Cursor(fila, i) ==
    IF i = 1 THEN determine_starting_point(fila, historico_existente).fecha_inicial
    ELSE get_next_month_date(ultima_fecha(GeneradosDe(fila)[i - 1].mes_actual)[1])

\* Iterations of the loop: one per generated record, and one more when the
\* loop was left by break with the cursor still within the limit
Iteraciones(fila) ==
    Len(GeneradosDe(fila))
        + (IF DateLE(Cursor(fila, Len(GeneradosDe(fila)) + 1), fecha_limite) THEN 1 ELSE 0)

\* Months from the resume month to the limit month, both included
MesesHastaLimite(fila) ==
    Max(0, MonthIdx(fecha_limite) - MonthIdx(Cursor(fila, 1)) + 1)

\* C30: for every property the run has processed, the month cursor advanced
\* strictly at every iteration of the generation loop, and the loop made at
\* most as many iterations as there are months from the resume month to the
\* limit month, both included.
C30_BucleAcotado ==
    \A f \in 1..Len(maestro) :
        maestro[f].nombre_inmueble \in DOMAIN nuevos_registros =>
            /\ \A i \in 1..Len(GeneradosDe(maestro[f])) :
                   DateLT(Cursor(maestro[f], i), Cursor(maestro[f], i + 1))
            /\ Iteraciones(maestro[f]) <= MesesHastaLimite(maestro[f])

\* A loop that crossed the turn of the year and used every iteration the
\* bound allows, the last one leaving by break at the end of the contract
C30_Witness ==
    \E f \in 1..Len(maestro) :
        /\ maestro[f].nombre_inmueble \in DOMAIN nuevos_registros
        /\ Len(GeneradosDe(maestro[f])) >= 2
        /\ GeneradosDe(maestro[f])[1].mes_actual = <<2023, 1, 2>>
        /\ Iteraciones(maestro[f]) = Len(GeneradosDe(maestro[f])) + 1
        /\ Iteraciones(maestro[f]) = MesesHastaLimite(maestro[f])

====
